---- MODULE Spec2Model ----
(***************************************************************************)
(* Model of the e-mail-to-ticket ingestion service (src/imap.js with its   *)
(* REST client and configuration).  One IMAP connection (the supervisors   *)
(* share no state) is modelled together with the library events that drive *)
(* it, the poll cycles it starts, and the promise chain of every message.  *)
(*                                                                         *)
(* Every action is one turn of the JavaScript event loop: a timer tick, a  *)
(* library event or the completion callback of one IMAP command or REST    *)
(* request, together with all the promise reactions (microtasks) that run  *)
(* before the next turn.                                                   *)
(*                                                                         *)
(* The IMAP library and the REST service are the environment.  A command   *)
(* the program has issued may be answered at any later moment at which the *)
(* session is authenticated, with or without an error; a REST request may  *)
(* be answered at any later moment.  A command issued while the session is *)
(* not authenticated stays unanswered until it is.  Message headers are    *)
(* well formed (subject and from are present), and the configuration is    *)
(* that of config.js but for the values Init draws.                        *)
(***************************************************************************)
EXTENDS Integers, Sequences, FiniteSets, TLC

\* ---------------------------------------------------------------- bounds
\* Poll cycles started during one run.
MaxCycles == 2
\* Unread messages the mailboxes hold at start, all together (the second
\* mailbox holds some only if the first does).
MaxUids == 2
\* Largest configured value of restConfig.maxQueryMessages.
MaxQuery == 2

\* Attachments of one message.
MaxAttach == 2
\* Largest count of issues the spam database answers with.
MaxIssues == 6

\* ----------------------------------------------------------- configuration
\* restConfig.defaultIssueAttrs.authorId, the system user.
defaultAuthorId == "PRS000000000001"
\* restConfig.spam.dontCheckAuthors
dontCheckAuthors == {"PRS000000000001"}
\* restConfig.spam.maxNumOfIssues
maxNumOfIssues == 5
\* The id of a person other than the system user.
customer == "PRS000000000002"
\* The ids getPersonIdByEmail resolves with.
Persons == {defaultAuthorId, customer}

\* Object.keys(conn.config.mailboxConfig), in configuration order.
ConfigKeys == <<"INBOX", "Drafts">>

Boxes == {ConfigKeys[i] : i \in 1..Len(ConfigKeys)}

\* A mailbox listing as conn.getBoxes returns it, reduced to what checkBoxes
\* reads: whether the name is a key of `boxes`, and which of the two configured
\* child names are keys of its `children`.
Children == {"success", "failure"}

Hierarchies ==
    {h \in [Boxes -> [exists : BOOLEAN, children : SUBSET Children]] :
        \A b \in Boxes : ~h[b].exists => h[b].children = {}}

\* The UIDs SEARCH UNSEEN returns for a mailbox holding n unread messages, in
\* server-returned order (not ascending).
Uids(n) == [i \in 1..n |-> n + 1 - i]

\* The number of unread messages of all mailboxes.
Total(u) == Len(u["INBOX"]) + Len(u["Drafts"])

VARIABLES
    conn,        \* the Imap session object with the fields init() adds to it
    started,     \* run() has been called
    stopping,    \* stop(): "no", "polling" (500 ms timer armed), "resolved"
    crashed,     \* an exception escaped a callback: the process is gone
    restConfig,  \* the runtime configuration read by the pipeline
    unseen,      \* server side: the unread UIDs of every mailbox
    cycles,      \* the poll cycles started so far (processMailboxes chains)
    pipes,       \* the unsettled per-message promise chains (processMessage)
    message      \* a message body under parsing or truncation, and the result

vars == <<conn, started, stopping, crashed, restConfig, unseen, cycles, pipes,
          message>>

\* No body is being transformed.
NoBody == [op |-> "none"]

\* ------------------------------------------------------------------ helpers
\* The process runs: no exception has escaped a callback, and the promise of
\* stop() has not resolved (the SIGINT handler then calls process.exit).
Alive == ~crashed /\ stopping # "resolved"

Min(a, b) == IF a < b THEN a ELSE b

\* slice with an inclusive end index.
sliceInclusive(s, from, to) == SubSeq(s, from + 1, IF to + 1 < Len(s) THEN to + 1 ELSE Len(s))

\* Array.prototype.slice(from, to) on a sequence (0-based, `to` exclusive).
slice(s, from, to) == SubSeq(s, from + 1, Min(to, Len(s)))

Range(s) == {s[i] : i \in 1..Len(s)}

\* A timer handle is active: `t && ~t._idleTimeout` (clearInterval sets
\* _idleTimeout to -1 and leaves the handle in place).
Active(t) == t = "armed"

\* ------------------------------------------------------------- conn helpers
\* conn.clearInterval: clears the poll timer if there is a handle.
clearInterval(cn) ==
    [cn EXCEPT !.interval = IF cn.interval = "undef" THEN "undef" ELSE "cleared"]

\* conn.connect() of the IMAP library: a new socket starts connecting; the
\* library's state stays 'disconnected' until the socket is connected.
connect(cn) ==
    [cn EXCEPT !.state = "disconnected", !.sock = "connecting", !.logoff = FALSE]

\* Multimap.disconnect; conn.end() queues the LOGOUT (logoff: requested on the
\* current socket), the close follows later.
disconnect(cn) ==
    LET c1 == clearInterval(cn)
    IN  IF c1.state # "disconnected"
        THEN [c1 EXCEPT !.isRunning = FALSE, !.logoff = TRUE]
        ELSE c1

\* The 'close' listener arming the reconnect timer whatever hadError is.
closeHandlerAnyClose(cn, hadError) ==
    LET c1 == [cn EXCEPT !.isRunning = FALSE]
    IN  IF c1.reconnect = "undef" /\ Active(c1.interval)
        THEN [[c1 EXCEPT !.interval = "cleared"] EXCEPT !.reconnect = "armed"]
        ELSE c1

\* The body of the 'close' listener.
closeHandler(cn, hadError) ==
    LET c1 == [cn EXCEPT !.isRunning = FALSE]
    IN  IF hadError /\ c1.reconnect = "undef" /\ Active(c1.interval)
        THEN [clearInterval(c1) EXCEPT !.reconnect = "armed"]
        ELSE c1

\* The `reconnect` closure run by the 10 s timer.
reconnect(cn) ==
    IF cn.state = "disconnected"
    THEN connect(cn)
    ELSE IF Active(cn.reconnect)
         THEN [cn EXCEPT !.reconnect = "undef"]
         ELSE cn

\* --------------------------------------------------------------- checkBoxes
logCheckResult(checked, result) == IF ~result /\ checked THEN FALSE ELSE checked

\* The value of `checked` after the forEach body has run for `name`.
checkOne(boxes, name) ==
    IF boxes[name].exists
    THEN LET c1 == logCheckResult(TRUE, TRUE)
             c2 == logCheckResult(c1, "success" \in boxes[name].children)
             c3 == logCheckResult(c2, "failure" \in boxes[name].children)
         IN  c3
    ELSE logCheckResult(TRUE, TRUE)

\* The two lists checkBoxes builds from a listing.
checkBoxes(boxes) ==
    [success |-> SelectSeq(ConfigKeys, LAMBDA n : checkOne(boxes, n)),
     failure |-> SelectSeq(ConfigKeys, LAMBDA n : ~checkOne(boxes, n))]

\* ------------------------------------------------------------------- cycles
\* A poll cycle right after processMailboxes has called checkBoxes.
NewCycle ==
    [phase |-> "check", passed |-> <<>>, idx |-> 0, ids |-> <<>>, missing |-> {}]

\* A poll cycle whose chain has run to its end.
Finished == [NewCycle EXCEPT !.phase = "done"]

Cycles == 1..Len(cycles)

\* The mailbox cycle cy is working on.
BoxOf(cy) == cy.passed[cy.idx]

\* processMailboxes without the `if (conn.isRunning) return` guard.
processMailboxesNoGuard(cn) ==
    IF cn.state = "disconnected"
    THEN /\ conn' = [cn EXCEPT !.isRunning = FALSE]
         /\ UNCHANGED <<cycles, pipes>>
    ELSE /\ Len(cycles) < MaxCycles
         /\ conn' = [cn EXCEPT !.isRunning = TRUE]
         /\ cycles' = Append(cycles, [phase |-> "check", passed |-> <<>>, idx |-> 0,
                                      ids |-> <<>>, missing |-> {}])
         /\ UNCHANGED pipes

\* processMailboxes without the test of the session state.
processMailboxesNoStateTest(cn) ==
    IF cn.isRunning
    THEN /\ conn' = cn
         /\ UNCHANGED <<cycles, pipes>>
    ELSE /\ Len(cycles) < MaxCycles
         /\ conn' = [cn EXCEPT !.isRunning = TRUE]
         /\ cycles' = Append(cycles, [phase |-> "check", passed |-> <<>>, idx |-> 0,
                                      ids |-> <<>>, missing |-> {}])
         /\ UNCHANGED pipes

\* The closure processMailboxes returns, run on the connection value cn.
processMailboxes(cn) ==
    IF cn.state = "disconnected"
    THEN /\ conn' = [cn EXCEPT !.isRunning = FALSE]
         /\ UNCHANGED <<cycles, pipes>>
    ELSE IF cn.isRunning
         THEN /\ conn' = cn
              /\ UNCHANGED <<cycles, pipes>>
         ELSE /\ Len(cycles) < MaxCycles
              /\ conn' = [cn EXCEPT !.isRunning = TRUE]
              /\ cycles' = Append(cycles, NewCycle)
              /\ UNCHANGED pipes

\* processBox(conn, passed[i]) as called from the reduce chain of cycle c (whose
\* record is cy), with the rest of the chain: a rejected processBox is caught and the chain goes on
\* to the next name; after the last name isRunning is set to false.
processBox(c, cy, i, cn) ==
    IF i <= Len(cy.passed) /\ cn.isRunning
    THEN /\ cycles' = [cycles EXCEPT ![c] = [cy EXCEPT !.phase = "open", !.idx = i, !.ids = <<>>]]
         /\ conn' = cn
    ELSE /\ cycles' = [cycles EXCEPT ![c] = Finished]
         /\ conn' = [cn EXCEPT !.isRunning = FALSE]

\* ------------------------------------------------------------- init
Init ==
    /\ conn = [state |-> "disconnected", sock |-> "none", isRunning |-> FALSE,
               interval |-> "undef", reconnect |-> "undef", logoff |-> FALSE,
               closeH |-> TRUE, readyH |-> TRUE, errH |-> TRUE]
    /\ started = FALSE
    /\ stopping = "no"
    /\ crashed = FALSE
    /\ restConfig \in [maxQueryMessages : 1..MaxQuery, createSystemIssue : BOOLEAN,
                       joinOriginalAsEml : {TRUE}, joinAttachments : {TRUE}]
    /\ unseen \in {u \in [Boxes -> {Uids(n) : n \in 0..MaxUids}] :
                        Total(u) <= MaxUids /\ (Len(u["INBOX"]) = 0 => Len(u["Drafts"]) = 0)}
    /\ cycles = <<>>
    /\ pipes = {}
    /\ message = NoBody

\* ------------------------------------------------- orchestrator and events
\* Multimap.run
run ==
    /\ Alive /\ ~started
    /\ started' = TRUE
    /\ conn' = IF conn.state = "disconnected" THEN connect(conn) ELSE conn
    /\ UNCHANGED <<stopping, crashed, restConfig, message, unseen, cycles, pipes>>

\* The socket connects: the library's state becomes 'connected'.
SockConnected ==
    /\ Alive /\ conn.sock = "connecting"
    /\ conn' = [conn EXCEPT !.sock = "open", !.state = "connected"]
    /\ UNCHANGED <<started, stopping, crashed, restConfig, message, unseen, cycles, pipes>>

\* Login succeeds: the library's state becomes 'authenticated' and 'ready' is
\* emitted; the listener was added with once().
OnReady ==
    /\ Alive /\ conn.sock = "open" /\ conn.state = "connected"
    /\ LET c1 == [conn EXCEPT !.state = "authenticated"]
       IN  IF conn.readyH
           THEN LET c2 == [c1 EXCEPT !.readyH = FALSE, !.interval = "armed"]
                IN  IF ~Active(conn.interval)
                    THEN processMailboxes(c2)
                    ELSE conn' = c2 /\ UNCHANGED <<cycles, pipes>>
           ELSE conn' = c1 /\ UNCHANGED <<cycles, pipes>>
    /\ UNCHANGED <<started, stopping, crashed, restConfig, message, unseen>>

\* A tick of the poll timer set in the 'ready' listener.
PollTick ==
    /\ Alive /\ Active(conn.interval)
    /\ processMailboxes(conn)
    /\ UNCHANGED <<started, stopping, crashed, restConfig, message, unseen>>

\* The peer ends the stream: the library sets state 'disconnected' and emits
\* 'end'; the listener only logs.
OnEnd ==
    /\ Alive /\ conn.sock = "open"
    /\ conn' = [conn EXCEPT !.state = "disconnected", !.sock = "ended"]
    /\ UNCHANGED <<started, stopping, crashed, restConfig, message, unseen, cycles, pipes>>

\* The socket closes: the library sets state 'disconnected' and emits 'close';
\* the listener was added with once().
OnClose(hadError) ==
    /\ Alive /\ conn.sock # "none"
    /\ LET c1 == [conn EXCEPT !.state = "disconnected", !.sock = "none", !.logoff = FALSE]
       IN  conn' = IF conn.closeH
                   THEN closeHandler([c1 EXCEPT !.closeH = FALSE], hadError)
                   ELSE c1
    /\ UNCHANGED <<started, stopping, crashed, restConfig, message, unseen, cycles, pipes>>

\* The library emits 'error' on the session.  The listener was added with
\* once(): it logs; with no listener left, emit('error') throws the error.
OnError ==
    /\ Alive /\ conn.sock # "none"
    /\ IF conn.errH
       THEN conn' = [conn EXCEPT !.errH = FALSE] /\ UNCHANGED crashed
       ELSE crashed' = TRUE /\ UNCHANGED conn
    /\ UNCHANGED <<started, stopping, restConfig, message, unseen, cycles, pipes>>

\* A tick of the reconnect timer.
ReconnectTick ==
    /\ Alive /\ Active(conn.reconnect)
    /\ conn' = reconnect(conn)
    /\ UNCHANGED <<started, stopping, crashed, restConfig, message, unseen, cycles, pipes>>

\* Multimap.stop: arms the 500 ms timer.
stop ==
    /\ Alive /\ started /\ stopping = "no"
    /\ stopping' = "polling"
    /\ UNCHANGED <<conn, started, crashed, restConfig, message, unseen, cycles, pipes>>

\* getRunning() looking at the session state only.
getRunningStateOnly(cn) == cn.state # "disconnected"

\* getRunning() of stop() is not empty.
getRunning(cn) == cn.state # "disconnected" \/ cn.isRunning

\* A tick of stop()'s timer.
StopTick ==
    /\ Alive /\ stopping = "polling"
    /\ IF getRunning(conn)
       THEN conn' = disconnect(conn) /\ UNCHANGED stopping
       ELSE stopping' = "resolved" /\ UNCHANGED conn
    /\ UNCHANGED <<started, crashed, restConfig, message, unseen, cycles, pipes>>

\* ------------------------------------------------------- poll cycle steps
\* History kept with a cycle: the passed names that are no key of the listing.
NotListed(boxes, passed) == {b \in Range(passed) : ~boxes[b].exists}

\* The callback of conn.getBoxes in checkBoxes, and what the chain in
\* processMailboxes does with the result.  With err set the callback calls
\* reject(err) and goes on to evaluate `name in boxes` on undefined: the
\* TypeError escapes the callback.
GetBoxesDone(c, err, boxes) ==
    /\ Alive /\ cycles[c].phase = "check" /\ conn.state = "authenticated"
    /\ IF err
       THEN /\ crashed' = TRUE
            /\ UNCHANGED <<conn, cycles>>
       ELSE /\ UNCHANGED crashed
            /\ LET lists == checkBoxes(boxes)
               IN  IF Len(lists.success) > 0
                   THEN processBox(c, [cycles[c] EXCEPT !.passed = lists.success,
                                                         !.missing = NotListed(boxes, lists.success)],
                                   1, conn)
                   ELSE /\ cycles' = [cycles EXCEPT ![c].phase = "failed"]
                        /\ UNCHANGED conn
    /\ UNCHANGED <<started, stopping, restConfig, message, unseen, pipes>>

\* The openBox callback with a chain that ends at the first failed mailbox.
OpenBoxDoneStops(c, err) ==
    /\ Alive /\ cycles[c].phase = "open" /\ conn.state = "authenticated"
    /\ BoxOf(cycles[c]) \in cycles[c].missing => err
    /\ IF err
       THEN processBox(c, cycles[c], Len(cycles[c].passed) + 1, conn)
       ELSE /\ cycles' = [cycles EXCEPT ![c].phase = "search"]
            /\ UNCHANGED conn
    /\ UNCHANGED <<started, stopping, crashed, restConfig, message, unseen, pipes>>

\* The callback of conn.openBox in processBox.
OpenBoxDone(c, err) ==
    /\ Alive /\ cycles[c].phase = "open" /\ conn.state = "authenticated"
    /\ BoxOf(cycles[c]) \in cycles[c].missing => err
    /\ IF err
       THEN processBox(c, cycles[c], cycles[c].idx + 1, conn)
       ELSE /\ cycles' = [cycles EXCEPT ![c].phase = "search"]
            /\ UNCHANGED conn
    /\ UNCHANGED <<started, stopping, crashed, restConfig, message, unseen, pipes>>

\* The callback of conn.search(['UNSEEN']) in processBox.
SearchDone(c, err) ==
    /\ Alive /\ cycles[c].phase = "search" /\ conn.state = "authenticated"
    /\ LET uids == unseen[BoxOf(cycles[c])]
           ids  == slice(uids, 0, restConfig.maxQueryMessages)
       IN  IF err \/ Len(uids) = 0
           THEN processBox(c, cycles[c], cycles[c].idx + 1, conn)
           ELSE /\ cycles' = [cycles EXCEPT ![c].phase = "fetch", ![c].ids = ids]
                /\ UNCHANGED conn
    /\ UNCHANGED <<started, stopping, crashed, restConfig, message, unseen, pipes>>

\* ------------------------------------------------------- message pipelines
\* The JavaScript expression a || b on ids (null is falsy).
Or(a, b) == IF a = "null" THEN b ELSE a

\* What processMessage knows of the k-th fetched message before any request.
\* Kept with its promise chain: whether the body was parsed, which sets
\* message.attachments (parsed) to a list of atts attachments; the person id
\* the lookup found (person, known); whether a configured spam header is
\* present (hdr, recorded when the spam gate looks); the answer of the spam
\* database (reply, count); whether the spam gate has rejected the message
\* (spam); the POST Issues / POST Comments request of the message (post:
\* "none", "sent", "created", "rejected") and the author id it carries
\* (author); the id the attachment uploads are addressed to (target:
\* "created" is the id the creation returned, "lost" any other value), the
\* uploads not yet answered (uploads); and the moves attempted to the success
\* and to the failure child (nSucc, nFail).
Fresh(c, box, k, uid) ==
    [cyc |-> c, box |-> box, k |-> k, uid |-> uid, pc |-> "body", flow |-> "issue",
     parsed |-> FALSE, atts |-> 0, known |-> FALSE, person |-> "null", hdr |-> FALSE,
     reply |-> "none", count |-> 0, spam |-> FALSE, post |-> "none", author |-> "none",
     target |-> "none", uploads |-> 0, nSucc |-> 0, nFail |-> 0]

\* processMessage going to doCreateComment without the fetch of the issue.
NewPipeNoFetch(c, box, k, uid, hasId) ==
    [Fresh(c, box, k, uid) EXCEPT !.flow = IF hasId THEN "comment" ELSE "issue"]

\* The promise chain processMessage builds for the k-th fetched message.  With
\* an SRQ id in the subject getIssueFromSubject sends a request; without one it
\* rejects at once and doCreateIssue starts with the full-body fetch.
NewPipe(c, box, k, uid, hasId) ==
    [Fresh(c, box, k, uid) EXCEPT !.pc = IF hasId THEN "getIssue" ELSE "body",
                                  !.flow = IF hasId THEN "none" ELSE "issue"]

\* processMessage without the `if (!conn.isRunning)` guard.
dispatchAlways(c, box, messages, withId, running) ==
    {NewPipe(c, box, k, messages[k], k \in withId) : k \in 1..Len(messages)}

\* The pipelines the 'end' handler of the header fetch starts for `messages`:
\* messages.map(processMessage).
dispatch(c, box, messages, withId, running) ==
    IF running
    THEN {NewPipe(c, box, k, messages[k], k \in withId) : k \in 1..Len(messages)}
    ELSE {}

\* The 'error' and 'end' handlers of the header fetch in processBox.  The
\* server answers with every requested message and marks it seen.
FetchDone(c, err, withId) ==
    /\ Alive /\ cycles[c].phase = "fetch" /\ conn.state = "authenticated"
    /\ LET cy == cycles[c]
           box == BoxOf(cy)
           messages == cy.ids
           started_ == dispatch(c, box, messages, withId, conn.isRunning)
       IN  IF err
           THEN /\ withId = {}
                /\ processBox(c, cy, cy.idx + 1, conn)
                /\ UNCHANGED <<unseen, pipes>>
           ELSE /\ withId \subseteq 1..Len(messages)
                /\ unseen' = [unseen EXCEPT ![box] = SelectSeq(@, LAMBDA u : u \notin Range(messages))]
                /\ pipes' = pipes \cup started_
                /\ IF started_ = {}
                   THEN /\ withId = {}
                        /\ processBox(c, cy, cy.idx + 1, conn)
                   ELSE /\ cycles' = [cycles EXCEPT ![c].phase = "dispatch"]
                        /\ UNCHANGED conn
    /\ UNCHANGED <<started, stopping, crashed, restConfig, message>>

moveMessageOnSuccess(p) == [p EXCEPT !.pc = "moveS", !.nSucc = @ + 1]

moveMessageOnFailure(p) == [p EXCEPT !.pc = "moveF", !.nFail = @ + 1]

\* rest.createIssue / rest.createComment is called: the POST request is sent.
\* Its author is `comment.authorId || defaults.authorId` (createComment),
\* `issue.id || defaults.authorId` (createIssue).
create(p) ==
    [p EXCEPT !.pc = "create", !.post = "sent", !.author = Or(p.person, defaultAuthorId)]

\* The first .catch of doCreateIssue: the sender was not found, or the body
\* fetch was rejected.
personNotFound(p) ==
    IF restConfig.createSystemIssue
    THEN create(p)
    ELSE moveMessageOnFailure(p)

\* Pipeline p goes on as q, unsettled.
Step(p, q) ==
    /\ pipes' = (pipes \ {p}) \cup {q}
    /\ UNCHANGED <<conn, cycles>>

\* The promise of pipeline p settles (pipes holds the unsettled chains only),
\* and Promise.all(...) of its mailbox reacts: it rejects with the first rejected pipeline and resolves when all
\* have resolved; either way processBox resolves and the chain of the cycle
\* goes on to the next mailbox.
Settle(p, rejected) ==
    LET ps == pipes \ {p}
        cy == cycles[p.cyc]
        waiting == cy.phase = "dispatch" /\ BoxOf(cy) = p.box
        allDone == \A r \in ps : ~(r.cyc = p.cyc /\ r.box = p.box)
    IN  /\ pipes' = ps
        /\ IF waiting /\ (rejected \/ allDone)
           THEN processBox(p.cyc, cy, cy.idx + 1, conn)
           ELSE UNCHANGED <<conn, cycles>>

\* The response to GET Issues/<id> in getIssueFromSubject.
GetIssueDone(p, ok) ==
    /\ Alive /\ p.pc = "getIssue"
    /\ Step(p, [p EXCEPT !.pc = "body", !.flow = IF ok THEN "comment" ELSE "issue"])
    /\ UNCHANGED <<started, stopping, crashed, restConfig, message, unseen>>

\* The full-body fetch of getMessageBody ends: parsed ('end' of the parser,
\* the mail has n attachments) or with a fetch error.
BodyDone(p, ok, n) ==
    /\ Alive /\ p.pc = "body" /\ conn.state = "authenticated"
    /\ ~ok => n = 0
    /\ IF ok
       THEN Step(p, [p EXCEPT !.pc = "person", !.parsed = TRUE, !.atts = n])
       ELSE IF p.flow = "comment"
            THEN Settle(p, FALSE)
            ELSE Step(p, personNotFound(p))
    /\ UNCHANGED <<started, stopping, crashed, restConfig, message, unseen>>

\* checkSpamByPersonId with the header test before the dontCheckAuthors test.
checkSpamHeadersFirst(personId, hasSpamHeaders) ==
    IF hasSpamHeaders
    THEN "reject"
    ELSE IF personId \in dontCheckAuthors THEN "resolve" ELSE "request"

\* checkSpamByPersonId without the header test.
checkSpamNoHeaders(personId, hasSpamHeaders) ==
    IF personId \in dontCheckAuthors THEN "resolve" ELSE "request"

\* The synchronous part of checkSpamByPersonId: it resolves, rejects, or sends
\* the query to the database endpoint.
checkSpamByPersonId(personId, hasSpamHeaders) ==
    IF personId \in dontCheckAuthors
    THEN "resolve"
    ELSE IF hasSpamHeaders THEN "reject" ELSE "request"

\* The response to GET Persons?email= in getPersonIdByEmail (personId is
\* "null" when it finds no person), and the links that follow in the same
\* turn: the creation for an unknown sender, the spam gate for a known one.
PersonDone(p, personId, hasSpamHeaders) ==
    /\ Alive /\ p.pc = "person"
    /\ IF personId # "null"
       THEN LET p1 == [p EXCEPT !.known = TRUE, !.person = personId, !.hdr = hasSpamHeaders]
                gate == checkSpamByPersonId(personId, hasSpamHeaders)
            IN  Step(p, IF gate = "resolve"
                        THEN create(p1)
                        ELSE IF gate = "reject"
                             THEN moveMessageOnFailure([p1 EXCEPT !.spam = TRUE])
                             ELSE [p1 EXCEPT !.pc = "spam"])
       ELSE IF p.flow = "comment"
            THEN Step(p, create(p))
            ELSE Step(p, personNotFound(p))
    /\ UNCHANGED <<started, stopping, crashed, restConfig, message, unseen>>

\* The answers of the spam database as the callback tells them apart: a
\* request error or a status other than 200, a body that does not parse, a
\* body without results, a count of issues.
SpamReplies == {"error", "unparsable", "noResults", "count"}

\* The callback of the database query with `issues >= maxNumOfIssues`.
spamQueryResponseAtLimit(reply, issues) ==
    IF reply = "count" /\ issues >= maxNumOfIssues THEN "reject" ELSE "resolve"

\* The callback of the database query rejecting when the query has failed.
spamQueryResponseFailClosed(reply, issues) ==
    IF reply # "count" \/ issues > maxNumOfIssues THEN "reject" ELSE "resolve"

\* The callback of the database query in checkSpamByPersonId.
spamQueryResponse(reply, issues) ==
    IF reply = "count" /\ issues > maxNumOfIssues THEN "reject" ELSE "resolve"

\* The database answers; a rejected message is moved to the failure child and
\* the creation is called all the same.
SpamDoneCreates(p, reply, issues) ==
    /\ Alive /\ p.pc = "spam"
    /\ reply # "count" => issues = 0
    /\ LET p1 == [p EXCEPT !.reply = reply, !.count = issues]
       IN  Step(p, IF spamQueryResponse(reply, issues) = "resolve"
                   THEN create(p1)
                   ELSE create(moveMessageOnFailure([p1 EXCEPT !.spam = TRUE])))
    /\ UNCHANGED <<started, stopping, crashed, restConfig, message, unseen>>

\* The database answers the query of checkSpamByPersonId.
SpamDone(p, reply, issues) ==
    /\ Alive /\ p.pc = "spam"
    /\ reply # "count" => issues = 0
    /\ LET p1 == [p EXCEPT !.reply = reply, !.count = issues]
       IN  Step(p, IF spamQueryResponse(reply, issues) = "resolve"
                   THEN create(p1)
                   ELSE moveMessageOnFailure([p1 EXCEPT !.spam = TRUE]))
    /\ UNCHANGED <<started, stopping, crashed, restConfig, message, unseen>>

\* promise.finally(cb) of ./promise-finally: the result settles as the promise
\* does, unless the promise cb returns is rejected.
finally(settled, cbRejects) == IF cbRejects THEN "rejected" ELSE settled

\* saveMessageAttachments is called for pipeline p, which goes on as q.  With
\* joinAttachments off, or without attachments, it resolves at once and the
\* success move follows.  Without message.attachments (the body fetch had
\* failed and a system issue was created) `attachments.length` throws in the
\* executor: the promise is rejected, the success move is skipped and the
\* chain ends in .finally(() => Promise.reject()).  Otherwise every attachment
\* is sent, to the path of q.target.
saveMessageAttachments(p, q) ==
    IF ~restConfig.joinAttachments
    THEN Step(p, moveMessageOnSuccess(q))
    ELSE IF ~q.parsed
         THEN Settle(p, finally("rejected", TRUE) = "rejected")
         ELSE IF q.atts = 0
              THEN Step(p, moveMessageOnSuccess(q))
              ELSE Step(p, [q EXCEPT !.pc = "attach", !.uploads = q.atts])

\* The outcomes of POST Issues / POST Comments as processResponse sees them:
\* status 200 with an id, a status or body that makes it reject, and a request
\* error, on which it reads response.body of an undefined response (the
\* TypeError escapes the callback).
Responses == {"created", "rejected", "error"}

\* The response to POST Issues / POST Comments.  A created comment goes on to
\* saveMessageAttachments with the comment id; a created issue to
\* saveEmlAsAttachment, which resolves at once with undefined when
\* joinOriginalAsEml is off.
CreateDone(p, res) ==
    /\ Alive /\ p.pc = "create"
    /\ IF res = "error"
       THEN /\ crashed' = TRUE
            /\ UNCHANGED <<conn, cycles, pipes>>
       ELSE /\ UNCHANGED crashed
            /\ IF res = "created"
               THEN LET q == [p EXCEPT !.post = "created"]
                    IN  IF p.flow = "comment"
                        THEN saveMessageAttachments(p, [q EXCEPT !.target = "created"])
                        ELSE IF restConfig.joinOriginalAsEml
                             THEN Step(p, [q EXCEPT !.pc = "eml"])
                             ELSE saveMessageAttachments(p, [q EXCEPT !.target = "lost"])
               ELSE Step(p, moveMessageOnFailure([p EXCEPT !.post = "rejected"]))
    /\ UNCHANGED <<started, stopping, restConfig, message, unseen>>

\* How saveEmlAsAttachment settles: the upload answered with success
\* (resolve(issueId)), the fetch of the original failed (resolve(issueId)),
\* the upload answered with a failure (processResponse of
\* getIssueAttachmentStream resolves with the error, with null or with the
\* exception).
EmlOutcomes == {"saved", "fetchError", "uploadFailed"}

\* saveEmlAsAttachment resolves, and saveMessageAttachments is called with the
\* value it resolved with as the issue id.
EmlDone(p, outcome) ==
    /\ Alive /\ p.pc = "eml" /\ conn.state = "authenticated"
    /\ saveMessageAttachments(p, [p EXCEPT !.target = IF outcome = "uploadFailed"
                                                       THEN "lost" ELSE "created"])
    /\ UNCHANGED <<started, stopping, crashed, restConfig, message, unseen>>

\* The response to one attachment upload of saveOneAttachment.  A failed
\* upload resolves its promise in the issue flow (getIssueAttachmentStream)
\* and rejects it in the comment flow (getCommentAttachmentStream);
\* Promise.all(...).finally(() => resolve(message)) resolves
\* saveMessageAttachments with the first rejection or when all have resolved,
\* and the success move follows.
UploadDone(p, ok) ==
    /\ Alive /\ p.uploads > 0
    /\ LET q == [p EXCEPT !.uploads = @ - 1]
           rejects == ~ok /\ p.flow = "comment"
       IN  IF p.pc = "attach" /\ (rejects \/ q.uploads = 0)
           THEN Step(p, moveMessageOnSuccess(q))
           ELSE Step(p, q)
    /\ UNCHANGED <<started, stopping, crashed, restConfig, message, unseen>>

\* Whether the chain of p ends rejected when its move has settled with `ok`.
\* doCreateComment ends with .catch(() => Promise.resolve()); in doCreateIssue
\* every failure move and the success move of a system issue are followed by
\* a rejecting link (.finally(() => Promise.reject()), or .then(...) after a
\* move that succeeded), so that only the success move of a known sender's
\* issue can resolve the chain.
endsRejected(p, ok) ==
    LET move == IF ok THEN "resolved" ELSE "rejected"
        end  == IF p.flow = "comment"
                THEN "resolved"
                ELSE IF p.pc = "moveS" /\ p.known
                     THEN move
                     ELSE finally(move, TRUE)
    IN  end = "rejected"

\* The callback of conn.move in moveMessageFn.  The failure move of a message
\* the spam gate rejected is followed by .finally(() => Promise.reject()); the
\* .then links after it, which end in the creation, are skipped because the
\* result is rejected.
MoveDone(p, ok) ==
    /\ Alive /\ p.pc \in {"moveS", "moveF"} /\ conn.state = "authenticated"
    /\ IF p.spam /\ finally(IF ok THEN "resolved" ELSE "rejected", TRUE) # "rejected"
       THEN Step(p, create(p))
       ELSE Settle(p, endsRejected(p, ok))
    /\ UNCHANGED <<started, stopping, crashed, restConfig, message, unseen>>

\* ------------------------------------------------------------- the service
\* The service on mail of one kind: every message has one attachment, no
\* configured spam header and a sender other than the system user; the spam
\* database answers with a count, and the EML upload does not fail.
Next ==
    \/ run
    \/ SockConnected
    \/ OnReady
    \/ PollTick
    \/ OnEnd
    \/ \E hadError \in BOOLEAN : OnClose(hadError)
    \/ ReconnectTick
    \/ stop
    \/ StopTick
    \/ \E c \in Cycles, err \in BOOLEAN, boxes \in Hierarchies : GetBoxesDone(c, err, boxes)
    \/ \E c \in Cycles, err \in BOOLEAN : OpenBoxDone(c, err)
    \/ \E c \in Cycles, err \in BOOLEAN : SearchDone(c, err)
    \/ \E c \in Cycles, err \in BOOLEAN, withId \in SUBSET (1..MaxQuery) : FetchDone(c, err, withId)
    \/ \E p \in pipes, ok \in BOOLEAN : GetIssueDone(p, ok)
    \/ \E p \in pipes, ok \in BOOLEAN : BodyDone(p, ok, IF ok THEN 1 ELSE 0)
    \/ \E p \in pipes, personId \in {"null", customer} : PersonDone(p, personId, FALSE)
    \/ \E p \in pipes, issues \in {0, maxNumOfIssues + 1} : SpamDone(p, "count", issues)
    \/ \E p \in pipes, res \in Responses : CreateDone(p, res)
    \/ \E p \in pipes, outcome \in {"saved", "fetchError"} : EmlDone(p, outcome)
    \/ \E p \in pipes, ok \in BOOLEAN : UploadDone(p, ok)
    \/ \E p \in pipes, ok \in BOOLEAN : MoveDone(p, ok)

Spec == Init /\ [][Next]_vars

\* ------------------------------------------------ further specifications
\* A run with one unread message, in the first mailbox, fetched one at a time.
InitSingle ==
    /\ Init
    /\ Total(unseen) = 1
    /\ restConfig.maxQueryMessages = 1

\* The service with a library that also emits 'error' events.
NextError == Next \/ OnError

ErrorSpec == InitSingle /\ [][NextError]_vars

\* The library closes the socket after a logoff request and after the peer has
\* ended the stream.
CloseFollows == \E hadError \in BOOLEAN : OnClose(hadError) /\ (conn.logoff \/ conn.sock = "ended")

\* The service with timers that keep firing while armed (setInterval) and a
\* library that closes every socket it was asked to log off.
LiveSpec ==
    /\ InitSingle /\ [][Next]_vars
    /\ WF_vars(StopTick) /\ WF_vars(PollTick) /\ WF_vars(ReconnectTick)
    /\ WF_vars(CloseFollows)

\* The state after construction with one unread message, in the first
\* mailbox, for every setting of the attachment switches.
InitMessage ==
    /\ conn = [state |-> "disconnected", sock |-> "none", isRunning |-> FALSE,
               interval |-> "undef", reconnect |-> "undef", logoff |-> FALSE,
               closeH |-> TRUE, readyH |-> TRUE, errH |-> TRUE]
    /\ started = FALSE
    /\ stopping = "no"
    /\ crashed = FALSE
    /\ restConfig \in [maxQueryMessages : {1}, createSystemIssue : BOOLEAN,
                       joinOriginalAsEml : BOOLEAN, joinAttachments : BOOLEAN]
    /\ unseen = [b \in Boxes |-> IF b = ConfigKeys[1] THEN Uids(1) ELSE <<>>]
    /\ cycles = <<>>
    /\ pipes = {}
    /\ message = NoBody

\* The service on a session that stays up, with mail of every kind: any
\* number of attachments, any sender, with and without a spam header, every
\* answer of the spam database and every outcome of the EML upload.
NextMessage ==
    \/ run
    \/ SockConnected
    \/ OnReady
    \/ PollTick
    \/ \E c \in Cycles, err \in BOOLEAN, boxes \in Hierarchies : GetBoxesDone(c, err, boxes)
    \/ \E c \in Cycles, err \in BOOLEAN : OpenBoxDone(c, err)
    \/ \E c \in Cycles, err \in BOOLEAN : SearchDone(c, err)
    \/ \E c \in Cycles, err \in BOOLEAN, withId \in SUBSET (1..MaxQuery) : FetchDone(c, err, withId)
    \/ \E p \in pipes, ok \in BOOLEAN : GetIssueDone(p, ok)
    \/ \E p \in pipes, ok \in BOOLEAN, n \in 0..MaxAttach : BodyDone(p, ok, n)
    \/ \E p \in pipes, personId \in Persons \cup {"null"}, hasSpamHeaders \in BOOLEAN :
            PersonDone(p, personId, hasSpamHeaders)
    \/ \E p \in pipes, reply \in SpamReplies, issues \in 0..MaxIssues : SpamDone(p, reply, issues)
    \/ \E p \in pipes, res \in Responses : CreateDone(p, res)
    \/ \E p \in pipes, outcome \in EmlOutcomes : EmlDone(p, outcome)
    \/ \E p \in pipes, ok \in BOOLEAN : UploadDone(p, ok)
    \/ \E p \in pipes, ok \in BOOLEAN : MoveDone(p, ok)

MessageSpec == InitMessage /\ [][NextMessage]_vars

\* ------------------------------------------------------ message body: dates
\* Text is a sequence of characters.
Digits == <<"0", "1", "2", "3", "4", "5", "6", "7", "8", "9">>

IsDigit(ch) == \E i \in 1..10 : Digits[i] = ch

\* Two and four decimal digits of a number, as a body author would type them.
Pad2(n) == <<Digits[((n \div 10) % 10) + 1], Digits[(n % 10) + 1]>>

Pad4(n) == Pad2(n \div 100) \o Pad2(n % 100)

\* \s: a blank or a line feed.
IsSpace(ch) == ch \in {" ", "\n"}

\* The index of the first character at or after i that \s* leaves unread.
RECURSIVE SkipSpaces(_, _)
SkipSpaces(t, i) == IF i <= Len(t) /\ IsSpace(t[i]) THEN SkipSpaces(t, i + 1) ELSE i

\* \d{2}[-\/]\d{2}[-\/]\d{4} at the start of t.
IsDatePrefix(t) ==
    /\ Len(t) >= 10
    /\ \A i \in {1, 2, 4, 5, 7, 8, 9, 10} : IsDigit(t[i])
    /\ t[3] \in {"-", "/"} /\ t[6] \in {"-", "/"}

\* A two-digit hour, a colon and a two-digit minute at j, the tens digits
\* taken from the given classes.
TimeAt(t, j, hourTens, minuteTens) ==
    /\ Len(t) >= j + 4
    /\ t[j] \in hourTens /\ IsDigit(t[j + 1])
    /\ t[j + 2] = ":"
    /\ t[j + 3] \in minuteTens /\ IsDigit(t[j + 4])

AnyDigit == {Digits[i] : i \in 1..10}

\* Some \s at or after i: what the tail .*?\s of the attribute pattern needs.
HasSpace(t, i) == \E k \in i..Len(t) : IsSpace(t[k])

\* The absent regular-expression match, and a field never set.
null == <<"null">>

undefined == <<"undefined">>

\* match[1] of the pattern of type date on the text that follows the key and
\* its separator: the date, the blanks after it and a time whose hour starts
\* with 0..2 and whose minute starts with 0..5, provided a \s follows.
matchDate(t) ==
    LET j == SkipSpaces(t, 11)
    IN  IF ~IsDatePrefix(t) THEN null
        ELSE IF TimeAt(t, j, {"0", "1", "2"}, {"0", "1", "2", "3", "4", "5"})
                    /\ HasSpace(t, j + 5)
             THEN SubSeq(t, 1, j + 4)
        ELSE IF HasSpace(t, j) THEN SubSeq(t, 1, j - 1)
        ELSE IF j > 11 THEN SubSeq(t, 1, j - 2)
        ELSE null

\* The number a run of digits denotes.
RECURSIVE Num(_)
Num(s) == IF s = <<>> THEN 0
          ELSE 10 * Num(SubSeq(s, 1, Len(s) - 1))
                + (CHOOSE d \in 0..9 : Digits[d + 1] = s[Len(s)])

IsLeap(y) == (y % 4 = 0 /\ y % 100 # 0) \/ y % 400 = 0

DaysIn(m, y) == IF m = 2 THEN (IF IsLeap(y) THEN 29 ELSE 28)
                ELSE IF m \in {4, 6, 9, 11} THEN 30 ELSE 31

\* s has the form YYYY-MM-DDTHH:MM:SS.
IsoForm(s) ==
    /\ Len(s) = 19
    /\ \A i \in {1, 2, 3, 4, 6, 7, 9, 10, 12, 13, 15, 16, 18, 19} : IsDigit(s[i])
    /\ s[5] = "-" /\ s[8] = "-" /\ s[11] = "T" /\ s[14] = ":" /\ s[17] = ":"

\* s is an ISO 8601 local date-time that names a moment of the calendar.
IsIsoLocal(s) ==
    /\ IsoForm(s)
    /\ LET y == Num(SubSeq(s, 1, 4))
           m == Num(SubSeq(s, 6, 7))
           d == Num(SubSeq(s, 9, 10))
       IN  /\ m \in 1..12
           /\ d \in 1..DaysIn(m, y)
           /\ Num(SubSeq(s, 12, 13)) \in 0..23
           /\ Num(SubSeq(s, 15, 16)) \in 0..59
           /\ Num(SubSeq(s, 18, 19)) \in 0..59

\* new Date(s): an object, whose time value is NaN unless s names a moment.
NewDate(s) == [type |-> "object", time |-> IF IsIsoLocal(s) THEN "finite" ELSE "NaN"]

\* A string as a JavaScript value.
Str(s) == [type |-> "string", chars |-> s]

InvalidDate == Str(<<"I", "n", "v", "a", "l", "i", "d", " ", "D", "a", "t", "e">>)

\* a !== b: values of different types are never identical, and an object is
\* identical only to itself.
StrictNe(a, b) == a.type # b.type \/ a.type = "object" \/ a.chars # b.chars

\* A JavaScript value in a condition: the empty string is falsy, every
\* object is truthy.
Truthy(a) == a.type = "object" \/ a.chars # <<>>

NaN == <<"NaN">>

\* Multimap.parseDate, on a string: the first date in it is rewritten as
\* YYYY-MM-DDT and the time (or 23:59:59), the rest is left as it is.
parseDate(dateStr) ==
    LET j == SkipSpaces(dateStr, 11)
        hasTime == TimeAt(dateStr, j, AnyDigit, AnyDigit)
        p1 == SubSeq(dateStr, 1, 2)
        p2 == SubSeq(dateStr, 4, 5)
        p3 == SubSeq(dateStr, 7, 10)
        p4 == SubSeq(dateStr, j, j + 4)
        rest == SubSeq(dateStr, IF hasTime THEN j + 5 ELSE j, Len(dateStr))
        matched == IF IsDatePrefix(dateStr)
                   THEN p3 \o <<"-">> \o p2 \o <<"-">> \o p1 \o <<"T">>
                        \o (IF hasTime THEN p4 \o <<":", "0", "0">>
                            ELSE <<"2", "3", ":", "5", "9", ":", "5", "9">>)
                        \o rest
                   ELSE dateStr
        date == IF Truthy(Str(matched)) THEN NewDate(matched) ELSE Str(matched)
    IN  IF Truthy(date) /\ StrictNe(date, InvalidDate) THEN matched ELSE NaN

\* Multimap.parsePermittedAttributes for one attribute of type date: the
\* value of the field, or null when no field is set.
parsePermittedAttributes(text) ==
    LET match == matchDate(text)
    IN  IF match = null THEN null
        ELSE LET date == parseDate(match)
             IN  IF date # NaN THEN date ELSE null

\* What a body can hold after the key: day, month, year, blanks, a time.
Days == {0, 1, 28, 29, 30, 31, 32}

Months == {0, 1, 2, 4, 12, 13}

Years == {2023, 2024}

Hours == {0, 23, 24, 29, 30}

Minutes == {0, 59, 60}

Times == {<<>>} \cup {Pad2(h) \o <<":">> \o Pad2(m) : h \in Hours, m \in Minutes}

DateTexts ==
    {Pad2(d) \o <<sep>> \o Pad2(m) \o <<sep>> \o Pad4(y) \o blanks \o time \o <<"\n">> :
        d \in Days, m \in Months, y \in Years, sep \in {"-", "/"},
        blanks \in {<<>>, <<" ">>}, time \in Times}

\* A body with a date attribute has arrived and is not parsed yet.
InitDate ==
    /\ conn = [state |-> "disconnected", sock |-> "none", isRunning |-> FALSE,
               interval |-> "undef", reconnect |-> "undef", logoff |-> FALSE,
               closeH |-> TRUE, readyH |-> TRUE, errH |-> TRUE]
    /\ started = FALSE
    /\ stopping = "no"
    /\ crashed = FALSE
    /\ restConfig \in [maxQueryMessages : {1}, createSystemIssue : {FALSE},
                       joinOriginalAsEml : {TRUE}, joinAttachments : {TRUE}]
    /\ unseen = [b \in Boxes |-> <<>>]
    /\ cycles = <<>>
    /\ pipes = {}
    /\ message \in [op : {"date"}, body : DateTexts, parsedFields : {undefined}]

\* getMessageBody's parser callback sets message.parsedFields.
ParseAttributes ==
    /\ message.op = "date" /\ message.parsedFields = undefined
    /\ message' = [message EXCEPT !.parsedFields = parsePermittedAttributes(message.body)]
    /\ UNCHANGED <<conn, started, stopping, crashed, restConfig, unseen, cycles, pipes>>

NextDate == ParseAttributes

DateSpec == InitDate /\ [][NextDate]_vars

\* ------------------------------------------- message body: text truncation
\* The longest body text and the longest delimiter list tried.
MaxLen == 5

MaxDelims == 2

\* The characters of a text body: a letter, the characters of the configured
\* delimiters and the line-break characters. The literal <<"B", "r">> stands
\* for a string delimiter such as 'Best regards'.
Alphabet == {"a", "/", "-", "B", "r", "\r", "\n"}

Texts == UNION {[1..n -> Alphabet] : n \in 0..MaxLen}

\* commentDelimiters: the regular expression /\/\/-+/ and a string.
Delimiters == {[re |-> TRUE, chars |-> <<"/", "/", "-">>],
               [re |-> FALSE, chars |-> <<"B", "r">>]}

DelimiterLists ==
    {ds \in UNION {[1..n -> Delimiters] : n \in 0..MaxDelims} :
        \A i, j \in 1..Len(ds) : i # j => ds[i] # ds[j]}

\* The delimiter matches t at index i (from 1). /\/\/-+/ matches where two
\* slashes and a hyphen start; a string without special characters, which
\* String.prototype.search turns into a regular expression, where it occurs.
MatchesAt(t, i, delimiter) ==
    /\ i + Len(delimiter.chars) - 1 <= Len(t)
    /\ SubSeq(t, i, i + Len(delimiter.chars) - 1) = delimiter.chars

\* Variant of search: the index of the last match.
searchLast(t, delimiter) ==
    IF \E i \in 1..Len(t) : MatchesAt(t, i, delimiter)
    THEN (CHOOSE i \in 1..Len(t) :
            /\ MatchesAt(t, i, delimiter)
            /\ \A k \in (i + 1)..Len(t) : ~MatchesAt(t, k, delimiter)) - 1
    ELSE -1

\* String.prototype.search: the index (from 0) of the first match, or -1.
search(t, delimiter) ==
    IF \E i \in 1..Len(t) : MatchesAt(t, i, delimiter)
    THEN (CHOOSE i \in 1..Len(t) :
            /\ MatchesAt(t, i, delimiter)
            /\ \A k \in 1..(i - 1) : ~MatchesAt(t, k, delimiter)) - 1
    ELSE -1

\* String.prototype.substring(from, to), indices from 0, end excluded.
substring(t, from, to) == SubSeq(t, from + 1, to)

\* result.replace(/\r?\n/g, '<br>'), scanning from the left.
RECURSIVE replaceBreaks(_)
replaceBreaks(t) ==
    IF t = <<>> THEN <<>>
    ELSE IF Len(t) >= 2 /\ t[1] = "\r" /\ t[2] = "\n"
         THEN <<"<", "b", "r", ">">> \o replaceBreaks(SubSeq(t, 3, Len(t)))
    ELSE IF t[1] = "\n"
         THEN <<"<", "b", "r", ">">> \o replaceBreaks(SubSeq(t, 2, Len(t)))
    ELSE <<t[1]>> \o replaceBreaks(SubSeq(t, 2, Len(t)))

\* Multimap.isHtml: /^<\s*html[^>]*>/i.
isHtml(t) ==
    /\ Len(t) >= 1 /\ t[1] = "<"
    /\ LET j == SkipSpaces(t, 2)
       IN  /\ Len(t) >= j + 4
           /\ t[j] \in {"h", "H"} /\ t[j + 1] \in {"t", "T"}
           /\ t[j + 2] \in {"m", "M"} /\ t[j + 3] \in {"l", "L"}
           /\ \E k \in (j + 4)..Len(t) : t[k] = ">"

\* The delimiters.forEach of the text branch, from delimiter n on.
RECURSIVE cutText(_, _, _)
cutText(result, delimiters, n) ==
    IF n > Len(delimiters) THEN result
    ELSE LET i == search(result, delimiters[n])
         IN  cutText(IF i # -1 THEN substring(result, 0, i) ELSE result, delimiters, n + 1)

\* Multimap.removeComments on a body that is not HTML.
removeComments(body, config) ==
    IF ~(config.truncateCommentsAfterDelimiter /\ Len(config.commentDelimiters) # 0)
    THEN body
    ELSE replaceBreaks(cutText(body, config.commentDelimiters, 1))

\* A text body has arrived and is not truncated yet, under every setting of
\* the truncation switches.
InitText ==
    /\ conn = [state |-> "disconnected", sock |-> "none", isRunning |-> FALSE,
               interval |-> "undef", reconnect |-> "undef", logoff |-> FALSE,
               closeH |-> TRUE, readyH |-> TRUE, errH |-> TRUE]
    /\ started = FALSE
    /\ stopping = "no"
    /\ crashed = FALSE
    /\ restConfig \in [maxQueryMessages : {1}, createSystemIssue : {FALSE},
                       joinOriginalAsEml : {TRUE}, joinAttachments : {TRUE},
                       truncateCommentsAfterDelimiter : BOOLEAN,
                       commentDelimiters : DelimiterLists]
    /\ unseen = [b \in Boxes |-> <<>>]
    /\ cycles = <<>>
    /\ pipes = {}
    /\ message \in [op : {"text"}, text : Texts, body : {undefined}]

\* getMessageBody's parser callback: message.body = removeComments(mail.text).
RemoveComments ==
    /\ message.op = "text" /\ message.body = undefined
    /\ ~isHtml(message.text)
    /\ message' = [message EXCEPT !.body = removeComments(message.text, restConfig)]
    /\ UNCHANGED <<conn, started, stopping, crashed, restConfig, unseen, cycles, pipes>>

NextText == RemoveComments

TextSpec == InitText /\ [][NextText]_vars

\* ------------------------------------------- message body: HTML truncation
\* The most element children an element of a document has.
MaxKids == 2

\* An element of the parsed document: its leading text and its element
\* children. The text of a leaf, of an element with children, of the body.
LeafTexts == {<<"a">>, <<"B">>, <<"r">>, <<"B", "r">>, <<"/", "/", "-">>}

InnerTexts == {<<>>, <<"B">>}

BodyTexts == {<<>>, <<"B", "r">>}

KidSeqs(S, least) == UNION {[1..n -> S] : n \in least..MaxKids}

Leaves == {[text |-> t, kids |-> <<>>] : t \in LeafTexts}

Elements == Leaves \cup {[text |-> t, kids |-> ks] : t \in InnerTexts, ks \in KidSeqs(Leaves, 1)}

\* The body elements cheerio.load can hand over.
Docs == {[text |-> t, kids |-> ks] : t \in BodyTexts, ks \in KidSeqs(Elements, 0)}

\* cheerio's text(): the text of the element and of all its descendants.
RECURSIVE textFrom(_, _)
text(el) == el.text \o textFrom(el.kids, 1)
textFrom(kids, i) == IF i > Len(kids) THEN <<>> ELSE text(kids[i]) \o textFrom(kids, i + 1)

\* re.test(str).
test(delimiter, str) == \E i \in 1..Len(str) : MatchesAt(str, i, delimiter)

\* The element a path of child indices leads to; the empty path is the body.
RECURSIVE at(_, _)
at(el, path) == IF path = <<>> THEN el ELSE at(el.kids[Head(path)], Tail(path))

\* traverse of findElement over the children of the element at path, from
\* child i on: the paths pushed, in order. A leaf that matches, or whose
\* parent's text matches, is pushed and ends the loop over its siblings; a
\* child with children is searched and the loop goes on.
RECURSIVE traverse(_, _, _, _)
traverse(body, path, i, re) ==
    LET parent == at(body, path)
    IN  IF i > Len(parent.kids) THEN <<>>
        ELSE LET el == parent.kids[i]
             IN  IF Len(el.kids) # 0
                 THEN traverse(body, path \o <<i>>, 1, re) \o traverse(body, path, i + 1, re)
                 ELSE IF test(re, text(el)) THEN <<path \o <<i>>>>
                 ELSE IF test(re, text(parent)) THEN <<path>>
                 ELSE traverse(body, path, i + 1, re)

\* findElement($body, re): a sequence holding the path of the element found,
\* the empty sequence for null.
findElement(body, re) ==
    IF Len(body.kids) # 0
    THEN LET result == traverse(body, <<>>, 1, re)
         IN  IF Len(result) # 0 THEN <<result[1]>> ELSE <<>>
    ELSE IF test(re, text(body)) THEN <<<<>>>> ELSE <<>>

\* truncate(el) for the element at path below el: the element and its right
\* siblings go, and so do the right siblings of every ancestor below the
\* body; the body itself is emptied.
RECURSIVE truncate(_, _)
truncate(el, path) ==
    IF path = <<>> THEN [text |-> <<>>, kids |-> <<>>]
    ELSE IF Len(path) = 1 THEN [el EXCEPT !.kids = SubSeq(el.kids, 1, path[1] - 1)]
    ELSE [el EXCEPT !.kids = SubSeq(el.kids, 1, path[1] - 1)
                                \o <<truncate(el.kids[path[1]], Tail(path))>>]

\* The delimiters.forEach of the HTML branch, from delimiter n on.
RECURSIVE cutHtml(_, _, _)
cutHtml(body, delimiters, n) ==
    IF n > Len(delimiters) THEN body
    ELSE LET found == IF test(delimiters[n], text(body))
                      THEN findElement(body, delimiters[n]) ELSE <<>>
         IN  cutHtml(IF found # <<>> THEN truncate(body, found[1]) ELSE body,
                     delimiters, n + 1)

\* Multimap.removeComments on an HTML body, as the document cheerio loaded.
removeCommentsHtml(body, config) ==
    IF ~(config.truncateCommentsAfterDelimiter /\ Len(config.commentDelimiters) # 0)
    THEN body
    ELSE cutHtml(body, config.commentDelimiters, 1)

\* An HTML body has arrived and is not truncated yet, under every setting of
\* the truncation switches.
InitHtml ==
    /\ conn = [state |-> "disconnected", sock |-> "none", isRunning |-> FALSE,
               interval |-> "undef", reconnect |-> "undef", logoff |-> FALSE,
               closeH |-> TRUE, readyH |-> TRUE, errH |-> TRUE]
    /\ started = FALSE
    /\ stopping = "no"
    /\ crashed = FALSE
    /\ restConfig \in [maxQueryMessages : {1}, createSystemIssue : {FALSE},
                       joinOriginalAsEml : {TRUE}, joinAttachments : {TRUE},
                       truncateCommentsAfterDelimiter : BOOLEAN,
                       commentDelimiters : DelimiterLists]
    /\ unseen = [b \in Boxes |-> <<>>]
    /\ cycles = <<>>
    /\ pipes = {}
    /\ message \in {[op |-> "html", html |-> d, body |-> d, done |-> FALSE] : d \in Docs}

\* getMessageBody's parser callback: message.body = removeComments(mail.html).
RemoveCommentsHtml ==
    /\ message.op = "html" /\ ~message.done
    /\ message' = [message EXCEPT !.body = removeCommentsHtml(message.html, restConfig),
                                  !.done = TRUE]
    /\ UNCHANGED <<conn, started, stopping, crashed, restConfig, unseen, cycles, pipes>>

NextHtml == RemoveCommentsHtml

HtmlSpec == InitHtml /\ [][NextHtml]_vars

\* ==================================================================== claims
\* A cycle has work of its own in flight, pipelines apart.
InFlight(cy) == cy.phase \in {"check", "open", "search", "fetch", "dispatch"}

C2_Settles(p) ==
    \A q \in pipes' : ~(q.cyc = p.cyc /\ q.box = p.box /\ q.uid = p.uid)

\* C2: when the pipeline of a dispatched message settles, exactly one move has
\* been attempted for the message.
C2_ExactlyOneMove ==
    [][\A p \in pipes : C2_Settles(p) => p.nSucc + p.nFail = 1]_vars

\* ---- C3
\* C3: while a cycle opens, searches, fetches or dispatches a mailbox, every
\* unsettled pipeline of the connection belongs to that mailbox of that cycle.
C3_OneMailboxAtATime ==
    \A c \in Cycles : \A p \in pipes :
        cycles[c].phase \in {"open", "search", "fetch", "dispatch"}
            => p.cyc = c /\ p.box = BoxOf(cycles[c])

\* ---- C4
\* C4: no two pipelines of the same mailbox (of the same cycle) are unsettled
\* at the same time.
C4_Sequential ==
    \A p \in pipes : \A q \in pipes :
        (p.cyc = q.cyc /\ p.box = q.box) => p = q

\* ---- C5
\* C5 (its consequence): every unsettled pipeline belongs to the latest poll
\* cycle, that is, no poll cycle has started while a pipeline of an earlier
\* cycle was unsettled.
C5_NoOverlap ==
    \A p \in pipes : p.cyc = Len(cycles)

\* ---- C6
\* C6: after a mailbox check that passed no mailbox, isRunning is false.
C6_IdleAfterFailedCheck ==
    (Len(cycles) > 0 /\ cycles[Len(cycles)].phase = "failed") => ~conn.isRunning

\* ---- C7
\* C7: every name of the passed list is a key of the fetched hierarchy.
C7_PassedOnlyIfListed ==
    \A c \in Cycles : \A b \in Range(cycles[c].passed) : b \notin cycles[c].missing

\* ---- C8
\* The first min(maxQueryMessages, n) of the n UIDs SEARCH UNSEEN returns.
C8_First(uids) ==
    [k \in 1..Min(restConfig.maxQueryMessages, Len(uids)) |-> uids[k]]

\* The pipelines started in this step for cycle c, as <<position, UID>>.
C8_Started(c) == {<<p.k, p.uid>> : p \in {q \in pipes' \ pipes : q.cyc = c}}

\* The search callback of cycle c runs in this step.
C8_SearchStep(c) == cycles[c].phase = "search" /\ cycles'[c] # cycles[c]

\* The header fetch of cycle c ends without error in this step.
C8_FetchEnd(c) == cycles[c].phase = "fetch" /\ unseen' # unseen

\* What holds of the search step in both readings: an empty result completes
\* the mailbox without a fetch, and the ids to fetch are the first ones.
C8_Search(c) ==
    LET uids == unseen[BoxOf(cycles[c])]
    IN  C8_SearchStep(c) =>
            /\ pipes' = pipes
            /\ Len(uids) = 0 => cycles'[c].phase \in {"open", "done"}
            /\ cycles'[c].phase = "fetch" =>
                   /\ cycles'[c].ids = C8_First(uids)
                   /\ Len(cycles'[c].ids) <= restConfig.maxQueryMessages

C9_UncleanCloseArms ==
    [][(OnClose(TRUE) /\ ~Active(conn.reconnect)) => Active(conn'.reconnect)]_vars

\* ---- C10
\* C10: when a session that has been closed before becomes authenticated
\* again, the poll timer is armed.
C10_PollingResumes ==
    [][(OnReady /\ ~conn.closeH) => Active(conn'.interval)]_vars

\* ---- C11
\* C11: a close arms the reconnect timer only if it closed with an error and no
\* reconnect timer was armed; a close without error leaves the reconnect timer
\* as it was.
C11_ArmsOnlyOnUncleanClose ==
    [][\A hadError \in BOOLEAN :
          OnClose(hadError) =>
              /\ (Active(conn'.reconnect) /\ conn'.reconnect # conn.reconnect)
                     => (hadError /\ ~Active(conn.reconnect))
              /\ ~hadError => conn'.reconnect = conn.reconnect]_vars

\* C11 witness: the 'close' listener has run on a close without error while the
\* poll timer was armed (an unclean close would have cleared it), and no
\* reconnect timer is armed.
C11_Witness ==
    /\ ~conn.closeH /\ Active(conn.interval) /\ stopping = "no"
    /\ conn.reconnect = "undef" /\ conn.sock = "none"

\* ---- C12
\* C12: a reconnect tick calls connect if and only if the session is
\* disconnected, and cancels the reconnect timer only if the session is
\* authenticated.
C12_CancelledOnceAuthenticated ==
    [][ReconnectTick =>
          /\ (conn'.sock = "connecting" /\ conn' # conn) <=> conn.state = "disconnected"
          /\ conn'.reconnect # conn.reconnect => conn.state = "authenticated"]_vars

\* ---- C13
\* C13: after disconnect(conn), called by a tick of stop(), neither timer of
\* the connection is armed, isRunning is false, and a logoff has been requested
\* if the session was not disconnected.
C13_DisconnectClearsAll ==
    [][(StopTick /\ getRunning(conn)) =>
          /\ ~Active(conn'.interval) /\ ~Active(conn'.reconnect)
          /\ ~conn'.isRunning
          /\ conn.state # "disconnected" => conn'.logoff]_vars

\* ---- C14
\* C14: when the promise of stop() has resolved, no message pipeline has a
\* REST creation, an upload or a move pending.
C14_NoPipelineAtResolve ==
    stopping = "resolved" =>
        \A p \in pipes : p.pc \notin {"create", "eml", "attach", "moveS", "moveF"}

C16_StopResolves == (stopping = "polling") ~> (stopping = "resolved" \/ crashed)

\* ---- C17
\* C17: no 'error' event of the session terminates the process.
C17_ErrorsSwallowed == [][OnError => ~crashed']_vars

\* ---- C18
\* Pipelines p and q handle the same message of the same dispatch.
Same(p, q) == p.cyc = q.cyc /\ p.box = q.box /\ p.uid = q.uid

C20_SpamNeverCreates ==
    \A p \in pipes :
        p.spam => /\ p.known /\ p.post = "none"
                  /\ p.pc = "moveF" /\ p.nFail = 1 /\ p.nSucc = 0

\* C20 witness: messages of both flows that the spam gate has rejected are
\* being moved to the failure child.
C20_Witness ==
    /\ \E p \in pipes : p.spam /\ p.flow = "comment" /\ p.pc = "moveF"
    /\ \E p \in pipes : p.spam /\ p.flow = "issue" /\ p.pc = "moveF"

\* ---- C21
\* C21: a message whose sender is in dontCheckAuthors passes the spam gate
\* without a query to the database, with or without a spam header.
C21_ExemptNeverQueried ==
    \A p \in pipes :
        p.person \in dontCheckAuthors =>
            /\ p.pc # "spam" /\ p.reply = "none"
            /\ ~p.spam /\ p.post # "none"

\* C21 witness: the POST of a message with a spam header from a sender in
\* dontCheckAuthors has been sent.
C21_Witness ==
    \E p \in pipes : p.person \in dontCheckAuthors /\ p.hdr /\ p.pc = "create"

\* ---- C22
\* C22: a message with a configured spam header from a known sender outside
\* dontCheckAuthors is rejected by the spam gate without a query to the
\* database and is moved to the failure child.
C22_HeaderRejectsUnqueried ==
    \A p \in pipes :
        (p.known /\ p.person \notin dontCheckAuthors /\ p.hdr) =>
            /\ p.spam /\ p.reply = "none"
            /\ p.pc = "moveF" /\ p.nFail = 1 /\ p.post = "none"

\* C22 witness: such a message of the comment flow is being moved to the
\* failure child.
C22_Witness ==
    \E p \in pipes : p.hdr /\ p.spam /\ p.flow = "comment" /\ p.pc = "moveF"

\* ---- C23
\* C23: after the database has answered with a count, the message is rejected
\* if and only if the count is greater than maxNumOfIssues.
C23_RejectsAboveLimit ==
    \A p \in pipes :
        p.reply = "count" => (p.spam <=> p.count > maxNumOfIssues)

\* C23 witness: a message has passed with a count equal to maxNumOfIssues.
C23_Witness ==
    \E p \in pipes : p.reply = "count" /\ p.count = maxNumOfIssues /\ p.pc = "create"

\* ---- C24
\* C24: after a failed query (request error or status, unparsable body, no
\* results) the message is not rejected and its creation has been called.
C24_FailOpen ==
    \A p \in pipes :
        p.reply \in {"error", "unparsable", "noResults"} =>
            ~p.spam /\ p.post # "none"

\* C24 witness: the POST of a message whose query failed has been sent.
C24_Witness ==
    \E p \in pipes : p.reply = "error" /\ p.pc = "create"

\* ---- C25
\* C25: the POST Comments of a comment-flow message whose sender was not found
\* carries authorId = null.
C25_AnonymousAuthorNull ==
    \A p \in pipes :
        (p.flow = "comment" /\ ~p.known /\ p.post # "none") => p.author = "null"

\* ---- C26
\* C26: a comment-flow message whose sender was not found never waits for the
\* spam database and has its POST Comments sent once; when the POST is
\* answered (or fails) the message goes on to the success child if the comment
\* was created and is moved to the failure child otherwise.
C26_AnonymousComment ==
    [][\A p \in pipes :
          (p.flow = "comment" /\ ~p.known /\ p.post # "none") =>
              /\ p.pc # "spam" /\ p.reply = "none"
              /\ (p.pc = "create" /\ \E res \in Responses : CreateDone(p, res)) =>
                     \E q \in pipes' :
                         /\ Same(p, q)
                         /\ \/ q.post = "created" /\ q.pc \in {"attach", "moveS"} /\ q.nFail = 0
                            \/ q.post = "rejected" /\ q.pc = "moveF"]_vars

\* ---- C27
\* C27: when the lookup does not find the sender of an issue-flow message,
\* with createSystemIssue a POST Issues authored by defaultIssueAttrs.authorId
\* is sent, and when it is answered (or fails) the message goes on to the
\* success child if the issue was created and is moved to the failure child
\* otherwise; without createSystemIssue no POST is sent and the message is
\* moved to the failure child at once.  The spam database is never asked.
C27_UnknownSenderIssue ==
    [][\A p \in pipes :
          /\ (p.flow = "issue" /\ p.pc = "person" /\ PersonDone(p, "null", FALSE)) =>
                 \E q \in pipes' :
                     /\ Same(p, q)
                     /\ IF restConfig.createSystemIssue
                        THEN q.pc = "create" /\ q.author = defaultAuthorId
                        ELSE q.pc = "moveF" /\ q.post = "none"
          /\ (p.flow = "issue" /\ p.parsed /\ ~p.known /\ p.pc # "person") =>
                 /\ p.pc # "spam" /\ p.reply = "none"
                 /\ (p.pc = "create" /\ \E res \in Responses : CreateDone(p, res)) =>
                        \E q \in pipes' :
                            /\ Same(p, q)
                            /\ \/ q.post = "created" /\ q.pc \in {"eml", "attach", "moveS"}
                                   /\ q.nFail = 0
                               \/ q.post = "rejected" /\ q.pc = "moveF"]_vars

\* ---- C28
\* C28: every attachment upload of a message is addressed to the id its
\* creation returned.
C28_UploadsToCreatedEntity ==
    \A p \in pipes : p.uploads > 0 => p.target = "created"

\* ---- C29
\* C29: while a move of a message is under way none of its attachment uploads
\* is unanswered.
C29_MoveAfterUploads ==
    \A p \in pipes : p.pc \in {"moveS", "moveF"} => p.uploads = 0

\* ---- C30
\* C30: a poll tick that finds the session not authenticated starts no cycle
\* and no pipeline, and isRunning is false after it.
C30_TickOffSession ==
    [][(PollTick /\ conn.state # "authenticated") =>
          /\ cycles' = cycles /\ pipes' = pipes
          /\ ~conn'.isRunning]_vars

\* C30 witness: the peer has ended the stream while a cycle was in flight, and
\* a poll tick has found the session disconnected (nothing else resets
\* isRunning before the close).
C30_Witness ==
    /\ conn.sock = "ended" /\ ~conn.isRunning /\ Active(conn.interval)
    /\ stopping = "no"
    /\ \E c \in Cycles : InFlight(cycles[c])

\* ---- C31
\* C31: every value parsePermittedAttributes extracts for an attribute of type
\* date has the form YYYY-MM-DDTHH:MM:SS and is a valid ISO 8601 local
\* date-time (month 01..12, a day of that month, hour 00..23); a date that is
\* not on the calendar yields no field.
C31_DateFieldValid ==
    (message.op = "date" /\ message.parsedFields \notin {undefined, null}) =>
        IsoForm(message.parsedFields) /\ IsIsoLocal(message.parsedFields)

\* ---- C32
\* What a character of a text contributes once every line break has become
\* <br>: a line feed gives <br>, the carriage return of a CRLF gives nothing.
C32_Piece(t, i) ==
    IF t[i] = "\n" THEN <<"<", "b", "r", ">">>
    ELSE IF t[i] = "\r" /\ i < Len(t) /\ t[i + 1] = "\n" THEN <<>>
    ELSE <<t[i]>>

RECURSIVE C32_BrFrom(_, _)
C32_BrFrom(t, i) == IF i > Len(t) THEN <<>> ELSE C32_Piece(t, i) \o C32_BrFrom(t, i + 1)

\* Some configured delimiter matches somewhere in t.
C32_Hit(t) ==
    \E n \in 1..Len(restConfig.commentDelimiters), i \in 1..Len(t) :
        MatchesAt(t, i, restConfig.commentDelimiters[n])

\* C32: with truncation enabled and a non-empty delimiter list, the result for
\* a text body is the <br>-converted form of a prefix of the input that holds
\* no match of any delimiter and ends where a delimiter matches (or at the end
\* of the input); when no delimiter matches it is the whole input with only
\* the line breaks replaced.
C32_TextTruncation ==
    (/\ message.op = "text" /\ message.body # undefined
     /\ restConfig.truncateCommentsAfterDelimiter
     /\ Len(restConfig.commentDelimiters) # 0) =>
        /\ \E k \in 0..Len(message.text) :
              /\ message.body = C32_BrFrom(SubSeq(message.text, 1, k), 1)
              /\ ~C32_Hit(SubSeq(message.text, 1, k))
              /\ k < Len(message.text) =>
                    \E n \in 1..Len(restConfig.commentDelimiters) :
                        MatchesAt(message.text, k + 1, restConfig.commentDelimiters[n])
        /\ ~C32_Hit(message.text) => message.body = C32_BrFrom(message.text, 1)

\* A text with a CRLF before the second delimiter of a list of two has been
\* cut there and its line break replaced.
C32_Witness ==
    /\ message.op = "text" /\ message.body # undefined
    /\ restConfig.truncateCommentsAfterDelimiter
    /\ Len(restConfig.commentDelimiters) = 2
    /\ \E k \in 3..(Len(message.text) - 1) :
          /\ message.text[k - 1] = "\r" /\ message.text[k] = "\n"
          /\ MatchesAt(message.text, k + 1, restConfig.commentDelimiters[2])
          /\ message.body = C32_BrFrom(SubSeq(message.text, 1, k), 1)
          /\ Len(message.body) = k + 2

\* ---- C33
\* The paths of the elements of a document, the body included.
C33_Paths(doc) ==
    {<<>>} \cup {<<i>> : i \in 1..Len(doc.kids)}
           \cup UNION {{<<i, j>> : j \in 1..Len(doc.kids[i].kids)} : i \in 1..Len(doc.kids)}

\* The deepest elements whose text holds a match: the text of the element
\* matches and the text of none of its element children does.
C33_Deepest(doc, re) ==
    {q \in C33_Paths(doc) :
        /\ test(re, text(at(doc, q)))
        /\ \A i \in 1..Len(at(doc, q).kids) : ~test(re, text(at(doc, q).kids[i]))}

\* C33: for a delimiter that matches the body text of an HTML body, the
\* element chosen is a deepest element whose text holds the match; it, its
\* right siblings and the right siblings of its ancestors below the body are
\* removed, and everything before it in document order is kept.
C33_CutsAtDeepestMatch ==
    (/\ message.op = "html" /\ message.done
     /\ restConfig.truncateCommentsAfterDelimiter
     /\ Len(restConfig.commentDelimiters) = 1
     /\ test(restConfig.commentDelimiters[1], text(message.html))) =>
        \E q \in C33_Deepest(message.html, restConfig.commentDelimiters[1]) :
            message.body = truncate(message.html, q)

\* ---- C34
\* The header fetch, the search or the open of cycle c's mailbox fails.
C34_BoxFails(c) == OpenBoxDone(c, TRUE) \/ SearchDone(c, TRUE) \/ FetchDone(c, TRUE, {})

\* C34: in a poll cycle the passed mailboxes are opened in the order of the
\* mailboxConfig keys; when a mailbox fails (open, search or header fetch
\* error) on a session still running, the next passed mailbox is opened; and
\* the step that ends the cycle after the last mailbox sets isRunning false.
C34_NextBoxAfterFailure ==
    [][\A c \in Cycles :
        LET cy == cycles[c]
            after == cycles'[c]
        IN  /\ cy.passed = SelectSeq(ConfigKeys, LAMBDA n : n \in Range(cy.passed))
            /\ (after.idx # cy.idx /\ after.phase # "done") =>
                    after.idx = cy.idx + 1 /\ after.phase = "open"
            /\ (C34_BoxFails(c) /\ conn.isRunning /\ cy.idx < Len(cy.passed)) =>
                    /\ after.phase = "open" /\ after.idx = cy.idx + 1
                    /\ after.passed = cy.passed
            /\ (InFlight(cy) /\ cy.phase # "check" /\ after.phase = "done") =>
                    ~conn'.isRunning]_vars

\* The first cycle has gone on to its second mailbox although every unread
\* message of the first is still unread: the first mailbox failed.
C34_Witness ==
    /\ Len(cycles) >= 1 /\ conn.isRunning
    /\ cycles[1].phase = "open" /\ cycles[1].idx = 2
    /\ Len(unseen[ConfigKeys[1]]) = MaxUids

\* ---- C35
\* C35: when the mailbox listing (getBoxes) returns an error, no exception
\* escapes the listing callback: the process keeps running, the poll cycle
\* has failed and no mailbox is opened.
C35_ListingErrorSurvived ==
    [][\A c \in Cycles :
          (\E boxes \in Hierarchies : GetBoxesDone(c, TRUE, boxes)) =>
                /\ ~crashed'
                /\ cycles'[c].phase = "failed"
                /\ pipes' = pipes]_vars

\* ---- C36
\* C36: when the full-body fetch of a message fails, the message is moved to
\* the failure child and no issue or comment is created for it, in the
\* comment flow and in the issue flow, with createSystemIssue on and off.
C36_BodyFailureMovesToFailure ==
    [][\A p \in pipes :
          BodyDone(p, FALSE, 0) =>
                \E q \in pipes' : Same(p, q) /\ q.pc = "moveF" /\ q.nFail = 1 /\ q.post = "none"]_vars

\* ---- C37
\* C37: in a step taken while isRunning is false no poll cycle opens a further
\* mailbox (processBox rejects at its guard) and no message pipeline is
\* started (processMessage rejects at its guard).
C37_GuardsStopTheCycle ==
    [][~conn.isRunning =>
          /\ \A c \in Cycles :
                cycles'[c].phase = "open" =>
                    cycles[c].phase = "open" /\ cycles'[c].idx = cycles[c].idx
          /\ \A q \in pipes' : \E p \in pipes : Same(p, q)]_vars

\* disconnect() has reset isRunning and asked for the logoff while the header
\* fetch of the first of two passed mailboxes is pending on the open session.
C37_Witness ==
    \E c \in Cycles :
        /\ cycles[c].phase = "fetch" /\ cycles[c].idx < Len(cycles[c].passed)
        /\ ~conn.isRunning /\ conn.logoff /\ conn.state = "authenticated"

\* ---- C38
\* C38: every message a header fetch has delivered, and thereby marked seen,
\* has a message pipeline from the end of the fetch on: the chain that goes on
\* to move it to the success or the failure child, also when the session was
\* disconnected or closed between the fetch and the dispatch.
C38_SeenAreDispatched ==
    [][\A c \in Cycles :
          (cycles[c].phase = "fetch" /\ unseen' # unseen) =>
                \A uid \in Range(cycles[c].ids) :
                    /\ uid \notin Range(unseen'[BoxOf(cycles[c])])
                    /\ \E p \in pipes' :
                          p.cyc = c /\ p.box = BoxOf(cycles[c]) /\ p.uid = uid]_vars

====
